---- MODULE Spec2Model ----
(***************************************************************************)
(* The CHIP-8 style virtual machine of src/emulator.rs (struct System).    *)
(*                                                                         *)
(* One cycle of System::run is two steps of the model: the                 *)
(* fetch-decode-execute part (one action per Opcode variant, Data for the  *)
(* decoder's Err branch, FetchFault for a fetch that indexes outside the   *)
(* memory array) and then the timer driver (Tick).                         *)
(*                                                                         *)
(* A Rust panic ends the process: it is the terminal value of `panic`.     *)
(* An integer overflow of `+`, `+=` or `-=` panics in a build with         *)
(* overflow checks and wraps in a build without them: overflow_checks is   *)
(* the build the process was compiled as.                                  *)
(***************************************************************************)
EXTENDS Integers, Sequences, FiniteSets, TLC

\* ------------------------------------------------------------------------
\* Program constants
\* ------------------------------------------------------------------------

\* const WORD_SIZE: u16 = 2
WORD_SIZE == 2

\* memory: [Constant; 4096]
MEMORY_SIZE == 4096

\* registers: [Constant; 16]
REGISTER_COUNT == 16

\* set_flag_register writes self.registers[15]
FLAG_REGISTER == 15

\* let mut current_address = 0x200; program_counter: 0x200
PROGRAM_START == 512

\* if current_address == 0xEA0 { break; }
PROGRAM_END == 3744

\* VecDeque::with_capacity(24)
STACK_CAPACITY == 24

\* self.tick(60)
TICK_RATE == 60

\* u8 and u16 moduli (Constant = u8, Register = u8, Address = u16)
U8 == 256

U16 == 65536

Byte == 0 .. (U8 - 1)

\* ------------------------------------------------------------------------
\* Bounds of the model
\* ------------------------------------------------------------------------

\* CallFunction is not taken once the stack holds this many addresses (the
\* code itself places no limit on the VecDeque).
MaxStack == 25

\* Wall-clock seconds that can pass between two samples of last_tick.
ElapsedSecs == {0, 62}

\* ------------------------------------------------------------------------
\* Small helpers
\* ------------------------------------------------------------------------

Max(a, b) == IF a >= b THEN a ELSE b

Min(a, b) == IF a <= b THEN a ELSE b

\* Bitwise operators on bytes, bit by bit.
RECURSIVE BitOp(_, _, _, _)
BitOp(f, a, b, bits) ==
    IF bits = 0 THEN 0
    ELSE (IF f = "or"  THEN (IF (a % 2 = 1) \/ (b % 2 = 1) THEN 1 ELSE 0)
          ELSE IF f = "and" THEN (IF (a % 2 = 1) /\ (b % 2 = 1) THEN 1 ELSE 0)
          ELSE (IF (a % 2) # (b % 2) THEN 1 ELSE 0))
         + 2 * BitOp(f, a \div 2, b \div 2, bits - 1)

BitOr(a, b) == BitOp("or", a, b, 8)

BitAnd(a, b) == BitOp("and", a, b, 8)

BitXor(a, b) == BitOp("xor", a, b, 8)

\* u8::wrapping_add
WrappingAdd(a, b) == (a + b) % U8

\* u8::overflowing_add: (result, carry)
OverflowingAdd(a, b) == [result |-> (a + b) % U8, carry |-> (a + b) >= U8]

\* u8::overflowing_sub: (result, borrow)
OverflowingSub(a, b) == [result |-> (a - b) % U8, carry |-> a < b]

\* ------------------------------------------------------------------------
\* The decoder (opcode::Opcode::from), external to emulator.rs
\* ------------------------------------------------------------------------

\* The decoded value: the variant's name and the operand fields of the two
\* bytes (x, y: register nibbles; kk: 8-bit constant; nnn: 12-bit address;
\* n: 4-bit constant). "DATA" is the Err((first, second)) result.
Opc(name, b0, b1) ==
    [op |-> name, x |-> b0 % 16, y |-> b1 \div 16, kk |-> b1,
     nnn |-> (b0 % 16) * 256 + b1, n |-> b1 % 16]

Decode(b0, b1) ==
    LET hi == b0 \div 16
        lo == b1 % 16
        name ==
          CASE hi = 0  -> (IF b0 = 0 /\ b1 = 224 THEN "Clear"
                           ELSE IF b0 = 0 /\ b1 = 238 THEN "Return"
                           ELSE "Call")
            [] hi = 1  -> "Goto"
            [] hi = 2  -> "CallFunction"
            [] hi = 3  -> "SkipEq"
            [] hi = 4  -> "SkipNEq"
            [] hi = 5  -> (IF lo = 0 THEN "SkipEqReg" ELSE "DATA")
            [] hi = 6  -> "Set"
            [] hi = 7  -> "AddAssign"
            [] hi = 8  -> (CASE lo = 0 -> "Copy"
                             [] lo = 1 -> "Or"
                             [] lo = 2 -> "And"
                             [] lo = 3 -> "Xor"
                             [] lo = 4 -> "AddAssignReg"
                             [] lo = 5 -> "SubAssignReg"
                             [] lo = 6 -> "ShiftRight"
                             [] lo = 7 -> "Subtract"
                             [] lo = 14 -> "ShiftLeft"
                             [] OTHER -> "DATA")
            [] hi = 9  -> (IF lo = 0 THEN "SkipNEqReg" ELSE "DATA")
            [] hi = 10 -> "SetAddressReg"
            [] hi = 11 -> "JumpOffset"
            [] hi = 12 -> "SetRand"
            [] hi = 13 -> "Draw"
            [] hi = 14 -> (CASE b1 = 158 -> "SkipKeyPress"
                             [] b1 = 161 -> "SkipNoKeyPress"
                             [] OTHER -> "DATA")
            [] OTHER   -> (CASE b1 = 7   -> "StoreDelayTimer"
                             [] b1 = 10  -> "StoreKeypress"
                             [] b1 = 21  -> "SetDelayTimer"
                             [] b1 = 24  -> "SetSoundTimer"
                             [] b1 = 30  -> "IncrementAddressReg"
                             [] b1 = 41  -> "StoreSpriteAddress"
                             [] b1 = 51  -> "BinaryCodedDecimal"
                             [] b1 = 85  -> "Dump"
                             [] b1 = 101 -> "Load"
                             [] OTHER -> "DATA")
    IN Opc(name, b0, b1)

\* ------------------------------------------------------------------------
\* Construction
\* ------------------------------------------------------------------------

\* System::new as it would be if the loop stopped only at the end of the
\* memory array, not at 0xEA0.
NewMemoryNoBreak(program) ==
    [a \in 0 .. (MEMORY_SIZE - 1) |->
        IF /\ a >= PROGRAM_START
           /\ a - PROGRAM_START < Len(program)
        THEN program[a - PROGRAM_START + 1]
        ELSE 0]

\* System::new: the memory image. The loop writes program[i] to
\* memory[0x200 + i] and breaks when the write address is 0xEA0.
NewMemory(program) ==
    [a \in 0 .. (MEMORY_SIZE - 1) |->
        IF /\ a >= PROGRAM_START
           /\ a < PROGRAM_END
           /\ a - PROGRAM_START < Len(program)
        THEN program[a - PROGRAM_START + 1]
        ELSE 0]

\* ------------------------------------------------------------------------
\* Program images given to System::new
\* ------------------------------------------------------------------------

\* One instruction word from its four nibbles, as its two bytes.
Ins(a, b, c, d) == <<a * 16 + b, c * 16 + d>>

\* One instruction word with a 12-bit address operand.
InsAddr(a, addr) == <<a * 16 + addr \div 256, addr % 256>>

\* One instruction word with a register and an 8-bit constant.
InsRegK(a, r, k) == <<a * 16 + r, k>>

\* A program followed by two words that each jump to themselves, so that a
\* run that reaches the end of the program (also by a skip) stays there.
WithHalt(p) ==
    p \o InsAddr(1, PROGRAM_START + Len(p))
      \o InsAddr(1, PROGRAM_START + Len(p) + 2)

\* Register indices, register values, constants and addresses of the images.
Regs == {0, 1, 15}

Vals == {3, 5, 10, 250}

\* Pairs of values of the two operands of a two-register opcode.
ValPairs == {<<5, 3>>, <<250, 10>>, <<3, 250>>, <<10, 10>>, <<250, 250>>}

Consts == {0, 3, 255}

Addrs == {0, 1, 14, 16, 256, 4095}

\* Set(a, va); Set(b, vb); then one two-register opcode, twice:
\* 5xy0, 8xy0 .. 8xy7, 8xyE, 9xy0.
TwoRegCodes == {<<5, 0>>, <<9, 0>>, <<8, 0>>, <<8, 1>>, <<8, 2>>, <<8, 3>>,
                <<8, 4>>, <<8, 5>>, <<8, 6>>, <<8, 7>>, <<8, 14>>}

TwoRegPrograms ==
    { WithHalt(InsRegK(6, a, v[1]) \o InsRegK(6, b, v[2])
               \o Ins(c[1], a, b, c[2]) \o Ins(c[1], a, b, c[2])) :
        a \in Regs, b \in Regs, v \in ValPairs, c \in TwoRegCodes }

\* Set(r, v); then one register-and-constant opcode: 3xkk, 4xkk, 6xkk, 7xkk,
\* Cxkk.
RegConstPrograms ==
    { WithHalt(InsRegK(6, r, v) \o InsRegK(c, r, k)) :
        r \in Regs, v \in Vals, k \in Consts, c \in {3, 4, 6, 7, 12} }

\* Set(r, v); then one one-register opcode that does not use the address
\* register: Ex9E, ExA1, Fx07, Fx0A, Fx15, Fx18, Fx29, Fx33.
OneRegPrograms ==
    { WithHalt(InsRegK(6, r, v) \o InsRegK(c[1], r, c[2])) :
        r \in Regs, v \in {1, 250},
        c \in {<<14, 158>>, <<14, 161>>, <<15, 7>>, <<15, 10>>, <<15, 21>>,
               <<15, 24>>, <<15, 41>>, <<15, 51>>} }

\* Set(0, v); Set(1, 7); SetAddressReg(addr); then one opcode that uses the
\* address register: Fx1E, Fx55, Fx65.
AddressPrograms ==
    { WithHalt(InsRegK(6, 0, v) \o InsRegK(6, 1, 7) \o InsAddr(10, addr)
               \o InsRegK(15, r, k)) :
        v \in {3, 250}, addr \in Addrs, r \in Regs, k \in {30, 85, 101} }

\* Set(0, 3); Set(1, 7); SetAddressReg(addr); Dump(n); SetAddressReg(addr);
\* Load(n): a dump read back from where it was written.
DumpLoadPrograms ==
    { WithHalt(InsRegK(6, 0, 3) \o InsRegK(6, 1, 7) \o InsAddr(10, addr)
               \o InsRegK(15, n, 85) \o InsAddr(10, addr)
               \o InsRegK(15, n, 101)) :
        addr \in {0, 1, 2, 14}, n \in {0, 1} }

\* Set(0, v); SetAddressReg(addr); JumpOffset: jumps that land on the
\* program's own first word or on the last bytes of memory.
JumpPrograms ==
    { InsRegK(6, 0, j[1]) \o InsAddr(10, j[2]) \o InsAddr(11, 0) :
        j \in {<<0, PROGRAM_START>>, <<1, MEMORY_SIZE - 6>>,
               <<250, MEMORY_SIZE - 6>>, <<1, MEMORY_SIZE - 1>>} }

\* Control flow, placeholders and undecodable words.
ControlPrograms ==
    { <<>>,                                                   \* empty image
      WithHalt(InsAddr(0, 291)),                              \* Call
      WithHalt(Ins(0, 0, 14, 0)),                             \* Clear
      WithHalt(Ins(0, 0, 14, 14)),                            \* Return, empty stack
      InsAddr(1, MEMORY_SIZE - 1),                            \* Goto 0xFFF
      InsAddr(1, MEMORY_SIZE - 2),                            \* Goto 0xFFE
      InsAddr(1, PROGRAM_START + 4) \o Ins(0, 0, 0, 0)
          \o InsAddr(1, PROGRAM_START),                       \* Goto loop
      InsAddr(2, PROGRAM_START),                              \* CallFunction self
      InsAddr(2, PROGRAM_START + 6) \o InsAddr(1, PROGRAM_START + 2)
          \o InsAddr(1, PROGRAM_START + 4)
          \o Ins(0, 0, 14, 14),                               \* call, return
      InsAddr(2, PROGRAM_START + 4) \o InsAddr(1, PROGRAM_START + 2)
          \o InsAddr(2, PROGRAM_START + 8)
          \o InsAddr(1, PROGRAM_START + 6)
          \o InsAddr(2, PROGRAM_START + 12)
          \o InsAddr(1, PROGRAM_START + 10)
          \o Ins(0, 0, 14, 14),                               \* nested calls
      WithHalt(Ins(13, 0, 1, 5)),                             \* Draw
      WithHalt(Ins(5, 0, 1, 1)),                              \* undecodable
      WithHalt(Ins(8, 0, 1, 8)),
      WithHalt(Ins(9, 0, 1, 15)),
      WithHalt(Ins(6, 0, 10, 10) \o Ins(14, 0, 0, 0)),
      WithHalt(Ins(6, 1, 0, 7) \o InsAddr(10, 291) \o Ins(15, 1, 15, 15)),
      \* an image two bytes longer than the loadable area: Goto 0x200 words
      [i \in 1 .. (PROGRAM_END - PROGRAM_START + 2) |->
          IF i % 2 = 1 THEN 18 ELSE 0] }

Programs ==
    TwoRegPrograms \cup RegConstPrograms \cup OneRegPrograms
      \cup AddressPrograms \cup DumpLoadPrograms \cup JumpPrograms
      \cup ControlPrograms

\* ------------------------------------------------------------------------
\* State
\* ------------------------------------------------------------------------

VARIABLES
    program,            \* the image System::new was given
    memory,             \* memory: [Constant; 4096]
    registers,          \* registers: [Constant; 16]
    address_register,   \* address_register: Address
    stack,              \* stack: VecDeque<Address>, front first
    delay_timer,        \* delay_timer: Constant
    sound_timer,        \* sound_timer: Constant
    program_counter,    \* program_counter: Address
    elapsed_secs,       \* self.last_tick.elapsed().as_secs() at the next tick
    phase,              \* position in the loop of run: "fetch" or "tick"
    panic,              \* "none", or the panic that ended the process
    overflow_checks,    \* TRUE: arithmetic overflow panics; FALSE: it wraps
    hist                \* the last three executed steps: opcode and state before

machine == <<memory, registers, address_register, stack, delay_timer,
             sound_timer, program_counter>>

vars == <<program, memory, registers, address_register, stack, delay_timer,
          sound_timer, program_counter, elapsed_secs, phase, panic,
          overflow_checks, hist>>

\* System::new(program)
Init ==
    /\ program \in Programs
    /\ memory = NewMemory(program)
    /\ registers = [r \in 0 .. (REGISTER_COUNT - 1) |-> 0]
    /\ address_register = 0
    /\ stack = <<>>
    /\ delay_timer = 0
    /\ sound_timer = 0
    /\ program_counter = PROGRAM_START
    /\ elapsed_secs = 0
    /\ phase = "fetch"
    /\ panic = "none"
    /\ overflow_checks \in BOOLEAN
    /\ hist = <<>>

\* ------------------------------------------------------------------------
\* Arithmetic that can overflow
\* ------------------------------------------------------------------------

\* `a + b` on u16: the sum; on overflow a panic or the wrapped sum.
Add16(a, b) ==
    IF a + b < U16 THEN [ok |-> TRUE, value |-> a + b]
    ELSE IF overflow_checks THEN [ok |-> FALSE, value |-> a]
    ELSE [ok |-> TRUE, value |-> (a + b) % U16]

\* `a - b` on u8: the difference; on overflow a panic or the wrapped one.
Sub8(a, b) ==
    IF a >= b THEN [ok |-> TRUE, value |-> a - b]
    ELSE IF overflow_checks THEN [ok |-> FALSE, value |-> a]
    ELSE [ok |-> TRUE, value |-> (a - b) % U8]

\* ------------------------------------------------------------------------
\* Fetch and decode (System::run)
\* ------------------------------------------------------------------------

\* self.memory[first_address] and self.memory[second_address] are in bounds.
CanFetch == program_counter + 1 < MEMORY_SIZE

\* Opcode::from(first_byte, second_byte)
Fetched == Decode(memory[program_counter], memory[program_counter + 1])

\* The loop is at its fetch and the two bytes decode to the variant `name`.
Decoded(name) ==
    /\ phase = "fetch"
    /\ panic = "none"
    /\ CanFetch
    /\ Fetched.op = name

\* The executed step as hist keeps it: the opcode and the state before it.
Snapshot ==
    [opcode |-> Fetched,
     program_counter |-> program_counter,
     registers |-> registers,
     address_register |-> address_register,
     stack |-> stack,
     delay_timer |-> delay_timer,
     sound_timer |-> sound_timer]

Record ==
    hist' = IF Len(hist) < 3 THEN Append(hist, Snapshot)
            ELSE <<hist[2], hist[3], Snapshot>>

\* The match arm returned: the loop goes on to self.tick(60); the wall clock
\* has moved by some number of seconds since last_tick.
ToTick ==
    /\ phase' = "tick"
    /\ elapsed_secs' \in ElapsedSecs
    /\ Record
    /\ UNCHANGED <<program, panic, overflow_checks>>

\* The step panicked: the process is gone.
Abort(kind) ==
    /\ panic' = kind
    /\ Record
    /\ UNCHANGED <<program, phase, elapsed_secs, overflow_checks>>

\* self.program_counter += k. The fetch bounds the counter below
\* MEMORY_SIZE - 1, so the u16 sum cannot overflow here.
Advance(k) == program_counter' = program_counter + k

\* get_register / set_register index self.registers[register as usize].
InRegisters(r) == r \in 0 .. (REGISTER_COUNT - 1)

get_register(r) == registers[r]

\* self.memory[..] with an address outside the array: the index panics.
FetchFault ==
    /\ phase = "fetch"
    /\ panic = "none"
    /\ ~CanFetch
    /\ panic' = "memory index out of bounds"
    /\ UNCHANGED <<program, machine, elapsed_secs, phase, overflow_checks,
                   hist>>

\* Data as it would be if the Err branch left the program counter alone.
DataNoAdvance ==
    /\ Decoded("DATA")
    /\ UNCHANGED machine
    /\ ToTick

\* Err((first, second)) => self.program_counter += WORD_SIZE
Data ==
    /\ Decoded("DATA")
    /\ Advance(WORD_SIZE)
    /\ UNCHANGED <<memory, registers, address_register, stack, delay_timer,
                   sound_timer>>
    /\ ToTick

\* ------------------------------------------------------------------------
\* Execute (System::process_opcode), one action per Opcode variant
\* ------------------------------------------------------------------------

\* set_register on a register file: regs with regs[r] := v.
set_register(regs, r, v) == [regs EXCEPT ![r] = v]

\* set_flag_register on a register file: regs with regs[15] := v.
set_flag_register(regs, v) == [regs EXCEPT ![FLAG_REGISTER] = v]

\* Opcode::Call: only the program counter moves
Call ==
    /\ Decoded("Call")
    /\ Advance(WORD_SIZE)
    /\ UNCHANGED <<memory, registers, address_register, stack, delay_timer,
                   sound_timer>>
    /\ ToTick

\* Opcode::Clear: only the program counter moves
Clear ==
    /\ Decoded("Clear")
    /\ Advance(WORD_SIZE)
    /\ UNCHANGED <<memory, registers, address_register, stack, delay_timer,
                   sound_timer>>
    /\ ToTick

\* Return as it would be popping the other end of the deque
\* (self.stack.pop_back()).
ReturnPopBack ==
    /\ Decoded("Return")
    /\ IF stack # <<>>
       THEN /\ program_counter' = stack[Len(stack)]
            /\ stack' = SubSeq(stack, 1, Len(stack) - 1)
       ELSE /\ Advance(WORD_SIZE)
            /\ stack' = stack
    /\ UNCHANGED <<memory, registers, address_register, delay_timer,
                   sound_timer>>
    /\ ToTick

\* Return as it would be with the empty stack treated as fatal
\* (self.stack.pop_front().unwrap()).
ReturnUnwrap ==
    /\ Decoded("Return")
    /\ IF stack # <<>>
       THEN /\ program_counter' = Head(stack)
            /\ stack' = Tail(stack)
            /\ ToTick
       ELSE /\ UNCHANGED <<program_counter, stack>>
            /\ Abort("called Option::unwrap() on a None value")
    /\ UNCHANGED <<memory, registers, address_register, delay_timer,
                   sound_timer>>

\* Opcode::Return: pop_front; jump to the popped address, or advance when
\* the stack is empty.
Return ==
    /\ Decoded("Return")
    /\ IF stack # <<>>
       THEN /\ program_counter' = Head(stack)
            /\ stack' = Tail(stack)
       ELSE /\ Advance(WORD_SIZE)
            /\ stack' = stack
    /\ UNCHANGED <<memory, registers, address_register, delay_timer,
                   sound_timer>>
    /\ ToTick

\* Opcode::Goto
Goto ==
    /\ Decoded("Goto")
    /\ program_counter' = Fetched.nnn
    /\ UNCHANGED <<memory, registers, address_register, stack, delay_timer,
                   sound_timer>>
    /\ ToTick

\* Opcode::CallFunction: push_front(program_counter); jump.
CallFunction ==
    /\ Decoded("CallFunction")
    /\ Len(stack) < MaxStack
    /\ stack' = <<program_counter>> \o stack
    /\ program_counter' = Fetched.nnn
    /\ UNCHANGED <<memory, registers, address_register, delay_timer,
                   sound_timer>>
    /\ ToTick

\* Opcode::SkipEq
SkipEq ==
    /\ Decoded("SkipEq")
    /\ IF get_register(Fetched.x) = Fetched.kk
       THEN Advance(2 * WORD_SIZE)
       ELSE Advance(WORD_SIZE)
    /\ UNCHANGED <<memory, registers, address_register, stack, delay_timer,
                   sound_timer>>
    /\ ToTick

\* Opcode::SkipNEq
SkipNEq ==
    /\ Decoded("SkipNEq")
    /\ IF get_register(Fetched.x) # Fetched.kk
       THEN Advance(2 * WORD_SIZE)
       ELSE Advance(WORD_SIZE)
    /\ UNCHANGED <<memory, registers, address_register, stack, delay_timer,
                   sound_timer>>
    /\ ToTick

\* Opcode::SkipEqReg
SkipEqReg ==
    /\ Decoded("SkipEqReg")
    /\ IF get_register(Fetched.x) = get_register(Fetched.y)
       THEN Advance(2 * WORD_SIZE)
       ELSE Advance(WORD_SIZE)
    /\ UNCHANGED <<memory, registers, address_register, stack, delay_timer,
                   sound_timer>>
    /\ ToTick

\* Opcode::Set
Set ==
    /\ Decoded("Set")
    /\ registers' =
         set_register(registers, Fetched.x, Fetched.kk)
    /\ Advance(WORD_SIZE)
    /\ UNCHANGED <<memory, address_register, stack, delay_timer, sound_timer>>
    /\ ToTick

\* Opcode::AddAssign: register.wrapping_add(constant), on the register's index
AddAssign ==
    /\ Decoded("AddAssign")
    /\ registers' =
         set_register(registers, Fetched.x,
                      WrappingAdd(Fetched.x, Fetched.kk))
    /\ Advance(WORD_SIZE)
    /\ UNCHANGED <<memory, address_register, stack, delay_timer, sound_timer>>
    /\ ToTick

\* Opcode::Copy
Copy ==
    /\ Decoded("Copy")
    /\ registers' =
         set_register(registers, Fetched.x, get_register(Fetched.y))
    /\ Advance(WORD_SIZE)
    /\ UNCHANGED <<memory, address_register, stack, delay_timer, sound_timer>>
    /\ ToTick

\* Or as it would be if the result went to the second operand
\* (self.set_register(second, first_value | second_value)).
OrIntoSecond ==
    /\ Decoded("Or")
    /\ registers' =
         LET first_value == get_register(Fetched.x)
             second_value == get_register(Fetched.y)
         IN set_register(registers, Fetched.y, BitOr(first_value, second_value))
    /\ Advance(WORD_SIZE)
    /\ UNCHANGED <<memory, address_register, stack, delay_timer, sound_timer>>
    /\ ToTick

\* Opcode::Or
Or ==
    /\ Decoded("Or")
    /\ registers' =
         LET first_value == get_register(Fetched.x)
             second_value == get_register(Fetched.y)
         IN set_register(registers, Fetched.x, BitOr(first_value, second_value))
    /\ Advance(WORD_SIZE)
    /\ UNCHANGED <<memory, address_register, stack, delay_timer, sound_timer>>
    /\ ToTick

\* Opcode::And
And ==
    /\ Decoded("And")
    /\ registers' =
         LET first_value == get_register(Fetched.x)
             second_value == get_register(Fetched.y)
         IN set_register(registers, Fetched.x, BitAnd(first_value, second_value))
    /\ Advance(WORD_SIZE)
    /\ UNCHANGED <<memory, address_register, stack, delay_timer, sound_timer>>
    /\ ToTick

\* Opcode::Xor
Xor ==
    /\ Decoded("Xor")
    /\ registers' =
         LET first_value == get_register(Fetched.x)
             second_value == get_register(Fetched.y)
         IN set_register(registers, Fetched.x, BitXor(first_value, second_value))
    /\ Advance(WORD_SIZE)
    /\ UNCHANGED <<memory, address_register, stack, delay_timer, sound_timer>>
    /\ ToTick

\* AddAssignReg as it would be if the flag were only ever raised
\* (`if carry { self.set_flag_register(1) }`).
AddAssignRegStickyFlag ==
    /\ Decoded("AddAssignReg")
    /\ registers' =
         LET first_value == get_register(Fetched.x)
             second_value == get_register(Fetched.y)
             r == OverflowingAdd(first_value, second_value)
             written == set_register(registers, Fetched.x, r.result)
         IN IF r.carry THEN set_flag_register(written, 1) ELSE written
    /\ Advance(WORD_SIZE)
    /\ UNCHANGED <<memory, address_register, stack, delay_timer, sound_timer>>
    /\ ToTick

\* AddAssignReg as it would be with a saturating add in place of the
\* overflowing one.
AddAssignRegSaturating ==
    /\ Decoded("AddAssignReg")
    /\ registers' =
         LET first_value == get_register(Fetched.x)
             second_value == get_register(Fetched.y)
         IN set_flag_register(
                set_register(registers, Fetched.x,
                             Min(first_value + second_value, U8 - 1)),
                IF first_value + second_value >= U8 THEN 1 ELSE 0)
    /\ Advance(WORD_SIZE)
    /\ UNCHANGED <<memory, address_register, stack, delay_timer, sound_timer>>
    /\ ToTick

\* Opcode::AddAssignReg
AddAssignReg ==
    /\ Decoded("AddAssignReg")
    /\ registers' =
         LET first_value == get_register(Fetched.x)
             second_value == get_register(Fetched.y)
             r == OverflowingAdd(first_value, second_value)
         IN set_flag_register(set_register(registers, Fetched.x, r.result),
                              IF r.carry THEN 1 ELSE 0)
    /\ Advance(WORD_SIZE)
    /\ UNCHANGED <<memory, address_register, stack, delay_timer, sound_timer>>
    /\ ToTick

\* Opcode::SubAssignReg
SubAssignReg ==
    /\ Decoded("SubAssignReg")
    /\ registers' =
         LET first_value == get_register(Fetched.x)
             second_value == get_register(Fetched.y)
             r == OverflowingSub(first_value, second_value)
         IN set_flag_register(set_register(registers, Fetched.x, r.result),
                              IF r.carry THEN 1 ELSE 0)
    /\ Advance(WORD_SIZE)
    /\ UNCHANGED <<memory, address_register, stack, delay_timer, sound_timer>>
    /\ ToTick

\* Opcode::ShiftRight
ShiftRight ==
    /\ Decoded("ShiftRight")
    /\ registers' =
         LET original_value == get_register(Fetched.y)
             lowest_bit == original_value % 2
             value == original_value \div 2
         IN set_flag_register(
                set_register(set_register(registers, Fetched.x, value),
                             Fetched.y, value),
                lowest_bit)
    /\ Advance(WORD_SIZE)
    /\ UNCHANGED <<memory, address_register, stack, delay_timer, sound_timer>>
    /\ ToTick

\* Subtract as it would be with the operand order of SubAssignReg
\* (first_value.overflowing_sub(second_value)).
SubtractSameOrder ==
    /\ Decoded("Subtract")
    /\ registers' =
         LET first_value == get_register(Fetched.x)
             second_value == get_register(Fetched.y)
             r == OverflowingSub(first_value, second_value)
         IN set_flag_register(set_register(registers, Fetched.x, r.result),
                              IF r.carry THEN 1 ELSE 0)
    /\ Advance(WORD_SIZE)
    /\ UNCHANGED <<memory, address_register, stack, delay_timer, sound_timer>>
    /\ ToTick

\* Opcode::Subtract
Subtract ==
    /\ Decoded("Subtract")
    /\ registers' =
         LET first_value == get_register(Fetched.x)
             second_value == get_register(Fetched.y)
             r == OverflowingSub(second_value, first_value)
         IN set_flag_register(set_register(registers, Fetched.x, r.result),
                              IF r.carry THEN 1 ELSE 0)
    /\ Advance(WORD_SIZE)
    /\ UNCHANGED <<memory, address_register, stack, delay_timer, sound_timer>>
    /\ ToTick

\* Opcode::ShiftLeft: the flag is original_value & 0x8
ShiftLeft ==
    /\ Decoded("ShiftLeft")
    /\ registers' =
         LET original_value == get_register(Fetched.y)
             highest_bit == BitAnd(original_value, 8)
             value == (original_value * 2) % U8
         IN set_flag_register(
                set_register(set_register(registers, Fetched.x, value),
                             Fetched.y, value),
                highest_bit)
    /\ Advance(WORD_SIZE)
    /\ UNCHANGED <<memory, address_register, stack, delay_timer, sound_timer>>
    /\ ToTick

\* Opcode::SkipNEqReg
SkipNEqReg ==
    /\ Decoded("SkipNEqReg")
    /\ IF get_register(Fetched.x) # get_register(Fetched.y)
       THEN Advance(2 * WORD_SIZE)
       ELSE Advance(WORD_SIZE)
    /\ UNCHANGED <<memory, registers, address_register, stack, delay_timer,
                   sound_timer>>
    /\ ToTick

\* Opcode::SetAddressReg
SetAddressReg ==
    /\ Decoded("SetAddressReg")
    /\ address_register' = Fetched.nnn
    /\ Advance(WORD_SIZE)
    /\ UNCHANGED <<memory, registers, stack, delay_timer, sound_timer>>
    /\ ToTick

\* Opcode::JumpOffset: program_counter = register 0 as u16 + address_register
JumpOffset ==
    /\ Decoded("JumpOffset")
    /\ LET sum == Add16(get_register(0), address_register)
       IN IF sum.ok
          THEN /\ program_counter' = sum.value
               /\ ToTick
          ELSE /\ program_counter' = program_counter
               /\ Abort("arithmetic overflow")
    /\ UNCHANGED <<memory, registers, address_register, stack, delay_timer,
                   sound_timer>>

\* Opcode::SetRand: only the program counter moves
SetRand ==
    /\ Decoded("SetRand")
    /\ Advance(WORD_SIZE)
    /\ UNCHANGED <<memory, registers, address_register, stack, delay_timer,
                   sound_timer>>
    /\ ToTick

\* Opcode::Draw: only the program counter moves
Draw ==
    /\ Decoded("Draw")
    /\ Advance(WORD_SIZE)
    /\ UNCHANGED <<memory, registers, address_register, stack, delay_timer,
                   sound_timer>>
    /\ ToTick

\* Opcode::SkipKeyPress: the arm is empty; nothing moves, the counter included.
SkipKeyPress ==
    /\ Decoded("SkipKeyPress")
    /\ UNCHANGED machine
    /\ ToTick

\* Opcode::SkipNoKeyPress: the arm is empty; nothing moves, the counter included.
SkipNoKeyPress ==
    /\ Decoded("SkipNoKeyPress")
    /\ UNCHANGED machine
    /\ ToTick

\* Opcode::StoreDelayTimer
StoreDelayTimer ==
    /\ Decoded("StoreDelayTimer")
    /\ registers' =
         set_register(registers, Fetched.x, delay_timer)
    /\ Advance(WORD_SIZE)
    /\ UNCHANGED <<memory, address_register, stack, delay_timer, sound_timer>>
    /\ ToTick

\* Opcode::StoreKeypress: only the program counter moves
StoreKeypress ==
    /\ Decoded("StoreKeypress")
    /\ Advance(WORD_SIZE)
    /\ UNCHANGED <<memory, registers, address_register, stack, delay_timer,
                   sound_timer>>
    /\ ToTick

\* Opcode::SetDelayTimer
SetDelayTimer ==
    /\ Decoded("SetDelayTimer")
    /\ delay_timer' = get_register(Fetched.x)
    /\ Advance(WORD_SIZE)
    /\ UNCHANGED <<memory, registers, address_register, stack, sound_timer>>
    /\ ToTick

\* Opcode::SetSoundTimer
SetSoundTimer ==
    /\ Decoded("SetSoundTimer")
    /\ sound_timer' = get_register(Fetched.x)
    /\ Advance(WORD_SIZE)
    /\ UNCHANGED <<memory, registers, address_register, stack, delay_timer>>
    /\ ToTick

\* Opcode::IncrementAddressReg: address_register += register as u16
IncrementAddressReg ==
    /\ Decoded("IncrementAddressReg")
    /\ LET sum == Add16(address_register, get_register(Fetched.x))
       IN IF sum.ok
          THEN /\ address_register' = sum.value
               /\ Advance(WORD_SIZE)
               /\ ToTick
          ELSE /\ UNCHANGED <<address_register, program_counter>>
               /\ Abort("arithmetic overflow")
    /\ UNCHANGED <<memory, registers, stack, delay_timer, sound_timer>>

\* Opcode::StoreSpriteAddress: only the program counter moves
StoreSpriteAddress ==
    /\ Decoded("StoreSpriteAddress")
    /\ Advance(WORD_SIZE)
    /\ UNCHANGED <<memory, registers, address_register, stack, delay_timer,
                   sound_timer>>
    /\ ToTick

\* Opcode::BinaryCodedDecimal: only the program counter moves
BinaryCodedDecimal ==
    /\ Decoded("BinaryCodedDecimal")
    /\ Advance(WORD_SIZE)
    /\ UNCHANGED <<memory, registers, address_register, stack, delay_timer,
                   sound_timer>>
    /\ ToTick

\* The loop of Opcode::Dump from index i on: register i is written to the
\* register indexed by address_register as u8, then address_register += 1.
\* The result is the register file and address register the loop leaves,
\* and the panic that stopped it, if one did.
RECURSIVE DumpLoop(_, _, _, _)
DumpLoop(regs, addr, i, last) ==
    IF i > last
    THEN [panic |-> "none", registers |-> regs, address_register |-> addr]
    ELSE LET to_register == addr % U8
             value == regs[i]
             next == Add16(addr, 1)
         IN IF ~InRegisters(to_register)
            THEN [panic |-> "register index out of bounds",
                  registers |-> regs, address_register |-> addr]
            ELSE IF ~next.ok
            THEN [panic |-> "arithmetic overflow",
                  registers |-> set_register(regs, to_register, value),
                  address_register |-> addr]
            ELSE DumpLoop(set_register(regs, to_register, value),
                          next.value, i + 1, last)

\* The loop of Opcode::Load from index i on: register i is read from the
\* register indexed by address_register as u8, then address_register += 1.
RECURSIVE LoadLoop(_, _, _, _)
LoadLoop(regs, addr, i, last) ==
    IF i > last
    THEN [panic |-> "none", registers |-> regs, address_register |-> addr]
    ELSE LET from_register == addr % U8
             next == Add16(addr, 1)
         IN IF ~InRegisters(from_register)
            THEN [panic |-> "register index out of bounds",
                  registers |-> regs, address_register |-> addr]
            ELSE IF ~next.ok
            THEN [panic |-> "arithmetic overflow",
                  registers |-> set_register(regs, i, regs[from_register]),
                  address_register |-> addr]
            ELSE LoadLoop(set_register(regs, i, regs[from_register]),
                          next.value, i + 1, last)

\* Dump as it would be writing the registers to memory at the address
\* register (self.memory[self.address_register as usize] = value).
DumpToMemory ==
    /\ Decoded("Dump")
    /\ memory' = [a \in DOMAIN memory |->
                     IF a >= address_register /\ a <= address_register + Fetched.x
                     THEN registers[a - address_register]
                     ELSE memory[a]]
    /\ address_register' = (address_register + Fetched.x + 1) % U16
    /\ Advance(WORD_SIZE)
    /\ UNCHANGED <<registers, stack, delay_timer, sound_timer>>
    /\ ToTick

\* Opcode::Dump: for i in 0..(register + 1)
Dump ==
    /\ Decoded("Dump")
    /\ LET out == DumpLoop(registers, address_register, 0, Fetched.x)
       IN /\ registers' = out.registers
          /\ address_register' = out.address_register
          /\ IF out.panic = "none"
             THEN /\ Advance(WORD_SIZE)
                  /\ ToTick
             ELSE /\ program_counter' = program_counter
                  /\ Abort(out.panic)
    /\ UNCHANGED <<memory, stack, delay_timer, sound_timer>>

\* Opcode::Load: for i in 0..(register + 1)
Load ==
    /\ Decoded("Load")
    /\ LET out == LoadLoop(registers, address_register, 0, Fetched.x)
       IN /\ registers' = out.registers
          /\ address_register' = out.address_register
          /\ IF out.panic = "none"
             THEN /\ Advance(WORD_SIZE)
                  /\ ToTick
             ELSE /\ program_counter' = program_counter
                  /\ Abort(out.panic)
    /\ UNCHANGED <<memory, stack, delay_timer, sound_timer>>

\* ------------------------------------------------------------------------
\* Timer driver (System::tick)
\* ------------------------------------------------------------------------

\* One timer of tick as it would be if every call decayed a running timer
\* by at least one (`timer -= max(elapsed, 1)`).
DecayAtLeastOne(timer, elapsed) ==
    IF timer > 0 THEN Sub8(timer, Max(elapsed, 1))
    ELSE [ok |-> TRUE, value |-> timer]

\* One timer of tick: `if timer > 0 { timer -= elapsed; }`
Decay(timer, elapsed) ==
    IF timer > 0 THEN Sub8(timer, elapsed) ELSE [ok |-> TRUE, value |-> timer]

\* let elapsed = (self.last_tick.elapsed().as_secs() % (rate as u64)) as u8
TickElapsed(rate) == (elapsed_secs % rate) % U8

\* self.tick(60); then the loop fetches again. last_tick = Instant::now().
Tick ==
    /\ phase = "tick"
    /\ panic = "none"
    /\ LET elapsed == TickElapsed(TICK_RATE)
           delay == Decay(delay_timer, elapsed)
           sound == Decay(sound_timer, elapsed)
       IN IF ~delay.ok
          THEN /\ panic' = "arithmetic overflow"
               /\ UNCHANGED <<delay_timer, sound_timer, phase, elapsed_secs>>
          ELSE IF ~sound.ok
          THEN /\ panic' = "arithmetic overflow"
               /\ delay_timer' = delay.value
               /\ UNCHANGED <<sound_timer, phase, elapsed_secs>>
          ELSE /\ delay_timer' = delay.value
               /\ sound_timer' = sound.value
               /\ phase' = "fetch"
               /\ elapsed_secs' = 0
               /\ panic' = panic
    /\ UNCHANGED <<program, memory, registers, address_register, stack,
                   program_counter, overflow_checks, hist>>

\* ------------------------------------------------------------------------
\* The machine
\* ------------------------------------------------------------------------

Next ==
    \/ FetchFault
    \/ Data
    \/ Call
    \/ Clear
    \/ Return
    \/ Goto
    \/ CallFunction
    \/ SkipEq
    \/ SkipNEq
    \/ SkipEqReg
    \/ Set
    \/ AddAssign
    \/ Copy
    \/ Or
    \/ And
    \/ Xor
    \/ AddAssignReg
    \/ SubAssignReg
    \/ ShiftRight
    \/ Subtract
    \/ ShiftLeft
    \/ SkipNEqReg
    \/ SetAddressReg
    \/ JumpOffset
    \/ SetRand
    \/ Draw
    \/ SkipKeyPress
    \/ SkipNoKeyPress
    \/ StoreDelayTimer
    \/ StoreKeypress
    \/ SetDelayTimer
    \/ SetSoundTimer
    \/ IncrementAddressReg
    \/ StoreSpriteAddress
    \/ BinaryCodedDecimal
    \/ Dump
    \/ Load
    \/ Tick

Spec == Init /\ [][Next]_vars

\* ------------------------------------------------------------------------
\* Properties
\* ------------------------------------------------------------------------

\* The step executed last, as hist keeps it.
Last == hist[Len(hist)]

\* The step executed before the last one.
Prev == hist[Len(hist) - 1]

\* The step executed before that.
Prev2 == hist[Len(hist) - 2]

\* The opcode `name` was the last one executed, it returned, and the loop is
\* now at the timer driver.
Executed(name) ==
    /\ phase = "tick"
    /\ panic = "none"
    /\ Len(hist) > 0
    /\ Last.opcode.op = name

\* The last two executed steps were CallFunction and then Return.
CallThenReturn ==
    /\ Executed("Return")
    /\ Len(hist) >= 2
    /\ Prev.opcode.op = "CallFunction"

\* C1: CallFunction(addr) at program counter p, then Return, leaves the
\* program counter at p + 2 and the call stack as it was before the call.
C1_CallReturnRoundTrip ==
    CallThenReturn =>
        /\ program_counter = Prev.program_counter + WORD_SIZE
        /\ stack = Prev.stack

\* The fetched opcode is one of the four conditional skips and its condition
\* holds in the current registers.
SkipTaken ==
    \/ Fetched.op = "SkipEq" /\ registers[Fetched.x] = Fetched.kk
    \/ Fetched.op = "SkipNEq" /\ registers[Fetched.x] # Fetched.kk
    \/ Fetched.op = "SkipEqReg" /\ registers[Fetched.x] = registers[Fetched.y]
    \/ Fetched.op = "SkipNEqReg" /\ registers[Fetched.x] # registers[Fetched.y]

\* The fetched bytes decode to an opcode that does not set the program
\* counter directly.
StepsByRule ==
    /\ phase = "fetch"
    /\ panic = "none"
    /\ CanFetch
    /\ Fetched.op \notin {"DATA", "Goto", "CallFunction", "JumpOffset"}
    /\ ~(Fetched.op = "Return" /\ stack # <<>>)

\* C2: every decoded opcode other than Goto, CallFunction, JumpOffset and a
\* Return on a non-empty stack, once executed from program counter p, leaves
\* the program counter at p + 4 when it is a conditional skip whose condition
\* is true and at p + 2 otherwise.
C2_StepRule ==
    [][(StepsByRule /\ panic' = "none") =>
          program_counter' =
              program_counter + (IF SkipTaken THEN 2 * WORD_SIZE ELSE WORD_SIZE)]_vars

\* C3: a tick with decrement d = elapsed seconds modulo the tick rate leaves
\* each timer at max(t - d, 0): it neither wraps modulo 256 nor aborts.
C3_TimerClamp ==
    [][(phase = "tick" /\ panic = "none") =>
          LET d == elapsed_secs % TICK_RATE
          IN /\ delay_timer' = Max(delay_timer - d, 0)
             /\ sound_timer' = Max(sound_timer - d, 0)
             /\ panic' = "none"]_vars

\* C4: no fetch aborts the machine: the two fetch addresses are inside the
\* memory array whenever the loop fetches.
C4_FetchInMemory ==
    /\ panic # "memory index out of bounds"
    /\ (phase = "fetch" /\ panic = "none") =>
           /\ program_counter \in 0 .. (MEMORY_SIZE - 1)
           /\ program_counter + 1 \in 0 .. (MEMORY_SIZE - 1)

\* C5: no step indexes the register file outside 0..15; Dump and Load reject
\* or clamp the index they derive from the address register.
C5_RegisterIndexInRange ==
    panic # "register index out of bounds"

\* C6: the call stack never holds more than 24 return addresses.
C6_BoundedStack ==
    Len(stack) <= STACK_CAPACITY

\* C7: Return on an empty call stack moves the program counter to pc + 2,
\* leaves the stack empty and memory, registers, address register and both
\* timers unchanged, and is not an error.
C7_EmptyReturn ==
    [][(Decoded("Return") /\ stack = <<>>) =>
          /\ program_counter' = program_counter + WORD_SIZE
          /\ stack' = <<>>
          /\ UNCHANGED <<memory, registers, address_register, delay_timer,
                         sound_timer>>
          /\ panic' = "none"
          /\ phase' = "tick"]_vars

\* Return was executed on an empty stack and the counter is one word on.
C7_Witness ==
    /\ Executed("Return")
    /\ Last.stack = <<>>
    /\ stack = <<>>
    /\ program_counter = Last.program_counter + WORD_SIZE

\* C8: when the decoder rejects the two fetched bytes, the step moves the
\* program counter to pc + 2, changes nothing else of the machine, and the
\* loop goes on to the rest of the cycle.
C8_DecodeFailure ==
    [][Decoded("DATA") =>
          /\ program_counter' = program_counter + WORD_SIZE
          /\ UNCHANGED <<memory, registers, address_register, stack,
                         delay_timer, sound_timer>>
          /\ panic' = "none"
          /\ phase' = "tick"]_vars

\* Two bytes the decoder rejected were stepped over with registers that hold
\* something: the machine is as it was but for the counter.
C8_Witness ==
    /\ Executed("DATA")
    /\ program_counter = Last.program_counter + WORD_SIZE
    /\ registers = Last.registers
    /\ \E r \in 0 .. (REGISTER_COUNT - 1) : registers[r] # 0

\* The last two executed steps were the same AddAssignReg(a, b).
DoubleAdd ==
    /\ Executed("AddAssignReg")
    /\ Len(hist) >= 2
    /\ Prev.opcode = Last.opcode

\* What C9 says of the registers after the second of two AddAssignReg(a, b):
\* a holds (original a + 2 * original b) mod 256 and the flag register holds
\* the carry of the second addition.
DoubleAddResult ==
    LET a == Last.opcode.x
        b == Last.opcode.y
    IN /\ registers[a] = (Prev.registers[a] + 2 * Prev.registers[b]) % U8
       /\ registers[FLAG_REGISTER] =
              IF Last.registers[a] + Last.registers[b] >= U8 THEN 1 ELSE 0

\* C9 as stated: for all register pairs (a, b), a = b and register 15
\* included, two AddAssignReg(a, b) in a row leave a = (a + 2b) mod 256 and
\* the flag equal to the carry of the second addition.
C9_DoubleAddAnyPair ==
    DoubleAdd => DoubleAddResult

\* C9 as amended: for register pairs (a, b) with a # b and neither of them
\* register 15, two AddAssignReg(a, b) in a row leave a = (a + 2b) mod 256
\* and the flag equal to the carry of the second addition.
C9_DoubleAddDistinct ==
    (/\ DoubleAdd
     /\ Last.opcode.x # Last.opcode.y
     /\ Last.opcode.x # FLAG_REGISTER
     /\ Last.opcode.y # FLAG_REGISTER) => DoubleAddResult

\* Two additions into a register other than the operand and the flag, the
\* first with a carry and the second without.
C9_Witness ==
    /\ DoubleAdd
    /\ Last.opcode.x # Last.opcode.y
    /\ Last.opcode.x # FLAG_REGISTER
    /\ Last.opcode.y # FLAG_REGISTER
    /\ Prev.registers[Last.opcode.x] + Prev.registers[Last.opcode.y] >= U8
    /\ registers[FLAG_REGISTER] = 0
    /\ DoubleAddResult

\* C10: AddAssignReg(a, b) with a # 15 leaves a = (va + vb) mod 256 and
\* register 15 = 1 if va + vb > 255 and 0 otherwise, and does not abort.
C10_AddAssignReg ==
    [][(Decoded("AddAssignReg") /\ Fetched.x # FLAG_REGISTER) =>
          LET va == registers[Fetched.x]
              vb == registers[Fetched.y]
          IN /\ registers'[Fetched.x] = (va + vb) % U8
             /\ registers'[FLAG_REGISTER] = (IF va + vb > U8 - 1 THEN 1 ELSE 0)
             /\ panic' = "none"
             /\ phase' = "tick"]_vars

\* 250 + 10 was added: the register holds 4 and the flag 1.
C10_Witness ==
    /\ Executed("AddAssignReg")
    /\ Last.opcode.x # FLAG_REGISTER
    /\ Last.registers[Last.opcode.x] = 250
    /\ Last.registers[Last.opcode.y] = 10
    /\ registers[Last.opcode.x] = 4
    /\ registers[FLAG_REGISTER] = 1

\* C11: AddAssign(r, k) leaves register r = (v + k) mod 256, v being the
\* value of r before, and changes no other register.
C11_AddAssignValue ==
    [][Decoded("AddAssign") =>
          /\ registers'[Fetched.x] = (registers[Fetched.x] + Fetched.kk) % U8
          /\ \A r \in 0 .. (REGISTER_COUNT - 1) :
                 r # Fetched.x => registers'[r] = registers[r]]_vars

\* The state System::new returns, before the first fetch.
Constructed ==
    /\ hist = <<>>
    /\ phase = "fetch"
    /\ panic = "none"

\* C12: after new(program), memory[0x200 + i] = program[i] for every i below
\* min(len(program), 0xCA0) and every other cell is 0 (below 0x200, from
\* 0x200 + len(program) upward, and from 0xEA0 upward); registers, address
\* register, timers are 0, the stack is empty, the program counter is 0x200.
C12_ProgramLoad ==
    Constructed =>
        LET loaded == Min(Len(program), PROGRAM_END - PROGRAM_START)
        IN /\ \A i \in 0 .. (loaded - 1) :
                  memory[PROGRAM_START + i] = program[i + 1]
           /\ \A a \in 0 .. (PROGRAM_START - 1) : memory[a] = 0
           /\ \A a \in (PROGRAM_START + loaded) .. (MEMORY_SIZE - 1) :
                  memory[a] = 0
           /\ \A a \in PROGRAM_END .. (MEMORY_SIZE - 1) : memory[a] = 0
           /\ DOMAIN memory = 0 .. (MEMORY_SIZE - 1)
           /\ \A r \in 0 .. (REGISTER_COUNT - 1) : registers[r] = 0
           /\ address_register = 0
           /\ delay_timer = 0
           /\ sound_timer = 0
           /\ stack = <<>>
           /\ program_counter = PROGRAM_START

\* An image longer than 0xCA0 bytes was loaded: its last loadable byte is in
\* memory, and its bytes beyond, though not zero, are not.
C12_Witness ==
    /\ Constructed
    /\ Len(program) > PROGRAM_END - PROGRAM_START
    /\ program[PROGRAM_END - PROGRAM_START + 1] # 0
    /\ memory[PROGRAM_END - 1] = program[PROGRAM_END - PROGRAM_START]
    /\ memory[PROGRAM_END] = 0

\* C13: a tick whose elapsed-time decrement is 0 leaves both timers, memory,
\* registers, address register, stack and program counter unchanged.
C13_TickZeroElapsed ==
    [][(phase = "tick" /\ panic = "none" /\ elapsed_secs % TICK_RATE = 0) =>
          /\ UNCHANGED <<delay_timer, sound_timer, memory, registers,
                         address_register, stack, program_counter>>
          /\ panic' = "none"]_vars

\* The tick after a SetDelayTimer has run and the delay timer, not zero, is
\* still the value the opcode gave it: no time had elapsed.
C13_Witness ==
    /\ phase = "fetch"
    /\ panic = "none"
    /\ Len(hist) > 0
    /\ Last.opcode.op = "SetDelayTimer"
    /\ program_counter = Last.program_counter + WORD_SIZE
    /\ delay_timer > 0
    /\ delay_timer = Last.registers[Last.opcode.x]

\* C14: the program counter is word-aligned (even) in every reachable state,
\* also after Goto, CallFunction, Return and JumpOffset.
C14_AlignedCounter ==
    program_counter % WORD_SIZE = 0

\* C15: for a # 15, SubAssignReg(a, b) leaves a = (va - vb) mod 256 and the
\* flag = 1 exactly when va < vb; Subtract(a, b) leaves a = (vb - va) mod 256
\* and the flag = 1 exactly when vb < va; the flag is 0 otherwise, and
\* register b is unchanged when b differs from a and from 15.
C15_SubtractOrders ==
    [][((Decoded("SubAssignReg") \/ Decoded("Subtract"))
            /\ Fetched.x # FLAG_REGISTER) =>
          LET a == Fetched.x
              b == Fetched.y
              va == registers[a]
              vb == registers[b]
              minuend == IF Fetched.op = "SubAssignReg" THEN va ELSE vb
              subtrahend == IF Fetched.op = "SubAssignReg" THEN vb ELSE va
          IN /\ registers'[a] = (minuend - subtrahend) % U8
             /\ registers'[FLAG_REGISTER] =
                    (IF minuend < subtrahend THEN 1 ELSE 0)
             /\ (b # a /\ b # FLAG_REGISTER) => registers'[b] = vb
             /\ panic' = "none"]_vars

\* Subtract(a, b) ran with 250 in a and 10 in b: a holds 10 - 250 mod 256 = 16,
\* the flag is 1 and b still holds 10.
C15_Witness ==
    /\ Executed("Subtract")
    /\ Last.opcode.x # FLAG_REGISTER
    /\ Last.opcode.y \notin {Last.opcode.x, FLAG_REGISTER}
    /\ Last.registers[Last.opcode.x] = 250
    /\ Last.registers[Last.opcode.y] = 10
    /\ registers[Last.opcode.x] = 16
    /\ registers[Last.opcode.y] = 10
    /\ registers[FLAG_REGISTER] = 1

\* C16: for a, b # 15, ShiftLeft(a, b) leaves a and b = (2 * vb) mod 256 and
\* the flag = bit 7 of vb, the bit shifted out, as 0 or 1.
C16_ShiftLeftFlag ==
    [][(/\ Decoded("ShiftLeft")
        /\ Fetched.x # FLAG_REGISTER
        /\ Fetched.y # FLAG_REGISTER) =>
          LET vb == registers[Fetched.y]
          IN /\ registers'[Fetched.x] = (2 * vb) % U8
             /\ registers'[Fetched.y] = (2 * vb) % U8
             /\ registers'[FLAG_REGISTER] = (vb \div 128) % 2]_vars

\* Bit k of the byte v.
Bit(v, k) == (v \div (2 ^ k)) % 2

\* The byte r is the bitwise OR / AND / XOR (by the opcode's name) of the
\* bytes va and vb.
IsBitwise(name, r, va, vb) ==
    /\ r \in Byte
    /\ \A k \in 0 .. 7 :
          Bit(r, k) =
              CASE name = "Or"  -> (IF Bit(va, k) = 1 \/ Bit(vb, k) = 1 THEN 1 ELSE 0)
                [] name = "And" -> (IF Bit(va, k) = 1 /\ Bit(vb, k) = 1 THEN 1 ELSE 0)
                [] name = "Xor" -> (IF Bit(va, k) # Bit(vb, k) THEN 1 ELSE 0)

\* The fetched opcode is Or, And or Xor.
BitwiseFetched ==
    Decoded("Or") \/ Decoded("And") \/ Decoded("Xor")

\* C17 as stated: for all a, b, a = b included, Or / And / Xor (a, b) leave in
\* a the bitwise OR / AND / XOR of the two original values, leave b at its
\* original value, and change no other register, register 15 included.
C17_BitwiseSecondKept ==
    [][BitwiseFetched =>
          /\ IsBitwise(Fetched.op, registers'[Fetched.x],
                       registers[Fetched.x], registers[Fetched.y])
          /\ registers'[Fetched.y] = registers[Fetched.y]
          /\ \A r \in 0 .. (REGISTER_COUNT - 1) :
                 r # Fetched.x => registers'[r] = registers[r]]_vars

\* C17 as amended: the same, except that after Xor(a, a) register a, which is
\* also b, holds 0 and not its original value.
C17_BitwiseSecondKeptUnlessXorSelf ==
    [][BitwiseFetched =>
          /\ IsBitwise(Fetched.op, registers'[Fetched.x],
                       registers[Fetched.x], registers[Fetched.y])
          /\ ~(Fetched.op = "Xor" /\ Fetched.x = Fetched.y) =>
                 registers'[Fetched.y] = registers[Fetched.y]
          /\ (Fetched.op = "Xor" /\ Fetched.x = Fetched.y) =>
                 registers'[Fetched.x] = 0
          /\ \A r \in 0 .. (REGISTER_COUNT - 1) :
                 r # Fetched.x => registers'[r] = registers[r]]_vars

\* Or(a, b) ran with 3 in a and 250 in b, b another register: a holds 251,
\* b still 250, and the flag register is what it was.
C17_Witness ==
    /\ Executed("Or")
    /\ Last.opcode.y # Last.opcode.x
    /\ Last.registers[Last.opcode.x] = 3
    /\ Last.registers[Last.opcode.y] = 250
    /\ registers[Last.opcode.x] = 251
    /\ registers[Last.opcode.y] = 250
    /\ Last.opcode.x # FLAG_REGISTER
    /\ Last.opcode.y # FLAG_REGISTER
    /\ registers[FLAG_REGISTER] = Last.registers[FLAG_REGISTER]

DumpSetLoad ==
    /\ Executed("Load")
    /\ Len(hist) = 3
    /\ Prev2.opcode.op = "Dump"
    /\ Prev.opcode.op = "SetAddressReg"
    /\ Prev2.opcode.x = Last.opcode.x
    /\ Prev.opcode.nnn = Prev2.address_register
    /\ Prev2.address_register + Last.opcode.x < REGISTER_COUNT

C19_LoadInvertsDump ==
    DumpSetLoad =>
        /\ \A i \in 0..Last.opcode.x : registers[i] = Prev2.registers[i]
        /\ Prev.address_register = Prev2.address_register + Last.opcode.x + 1
        /\ address_register = Last.address_register + Last.opcode.x + 1

\* C20: memory is read-only after construction. It starts as the memory
\* new(program) builds and no step of any cycle changes it (nor the program
\* it was built from), so an address fetched again decodes to the same
\* instruction.
C20_MemoryReadOnly ==
    /\ memory = NewMemory(program)
    /\ [][memory' = memory /\ program' = program]_vars
    /\ [](Len(hist) >= 2 /\ Last.program_counter = Prev.program_counter
             => Last.opcode = Prev.opcode)

\* A Dump has just rewritten registers and moved the address register, and
\* memory is still the constructed image.
C20_Witness ==
    /\ Executed("Dump")
    /\ registers # Last.registers
    /\ address_register # Last.address_register
    /\ memory = NewMemory(program)

====
